---- MODULE Spec2Model ----
(***************************************************************************)
(* TV-Tracker client state synchronizer (src/src/App.js).                  *)
(*                                                                         *)
(* The App component owns two collections, shows and episodes, and         *)
(* changes them from async handlers.  Every handler runs synchronously up  *)
(* to an `await fetch(...)`, is suspended while the request is in flight,  *)
(* and is resumed with the response (or a transport rejection).  Handlers  *)
(* of different user actions interleave at these suspension points.        *)
(*                                                                         *)
(* A handler invocation is an entry of `ops`; it carries the values the    *)
(* JavaScript closure captured at the call (shows, episodes,               *)
(* isAuthenticated) and the handler's local variables.                     *)
(***************************************************************************)
EXTENDS Integers, Sequences, FiniteSets, TLC

\* ------------------------------------------------------------------ bounds
\* Number of handler invocations that may be suspended at the same time.
MaxInFlight == 2
\* Cap on the length the show collection may grow to (duplicates included).
MaxShowsLen == 3
\* Number of times the decode harness hands one response to handleApiResponse.
MaxDecodes == 2
\* Number of handler invocations in a run in which handlers interleave.
MaxCalls == 3
\* Latest moment, in days since the epoch, the release harness looks at.
MaxTime == 6

\* ------------------------------------------------------------- catalogue
ShowIds == {"1", "2"}

\* Episodes the catalogue lists for a show, in catalogue order.
CatalogEpisodes(s) == IF s = "1" THEN <<"11", "12">> ELSE <<"21">>

EpisodeIds == {"11", "12", "21"}

ShowOfEpisode(e) == IF e = "21" THEN "2" ELSE "1"

\* ------------------------------------------------------------- sequences
RECURSIVE SelectSeqBy(_, _)
\* Array.prototype.filter with the predicate given as a set of kept values
\* of the key; s is a sequence of pairs <<key, element>>.
SelectSeqBy(s, keep) ==
    IF s = <<>> THEN <<>>
    ELSE IF Head(s)[1] \in keep
         THEN <<Head(s)[2]>> \o SelectSeqBy(Tail(s), keep)
         ELSE SelectSeqBy(Tail(s), keep)

Range(s) == {s[i] : i \in 1..Len(s)}

\* shows.filter(show => show.tvMazeId !== showId)
FilterShows(ss, showId) ==
    SelectSeqBy([i \in 1..Len(ss) |-> <<ss[i].tvMazeId, ss[i]>>], ShowIds \ {showId})

\* episodes.filter(episode => episode.showId !== showId)
FilterEpisodes(es, showId) ==
    SelectSeqBy([i \in 1..Len(es) |-> <<es[i].showId, es[i]>>], ShowIds \ {showId})

\* ------------------------------------------------------------ JSON bodies
\* A response body is its text together with what JSON.parse makes of that
\* text: t = "syntaxerror" when the text is no JSON, "null" for the JSON
\* null, "object" / "array" otherwise.  `error` is the object's error field
\* ("" when the field is absent or empty, both falsy in JavaScript).
NoShow == [tvMazeId |-> "", ignored |-> FALSE]

JValue(t, err, skipped, show, list, eps) ==
    [t |-> t, error |-> err, skipped |-> skipped, show |-> show,
     shows |-> list, eps |-> eps, errors |-> <<>>]

JSyntaxError == JValue("syntaxerror", "", FALSE, NoShow, <<>>, <<>>)
JNull        == JValue("null", "", FALSE, NoShow, <<>>, <<>>)
JObject      == JValue("object", "", FALSE, NoShow, <<>>, <<>>)
JError(msg)  == JValue("object", msg, FALSE, NoShow, <<>>, <<>>)
JShows(list) == JValue("array", "", FALSE, NoShow, list, <<>>)
JEpisodes(l) == JValue("array", "", FALSE, NoShow, <<>>, l)
JAdded(skipped, show) == JValue("object", "", skipped, show, <<>>, <<>>)
JIgnored(show) == JValue("object", "", FALSE, show, <<>>, <<>>)
\* The refresh result: errors lists the names of the shows that failed.
JRefreshed(errors) == [JValue("object", "", FALSE, NoShow, <<>>, <<>>)
                          EXCEPT !.errors = errors]

Body(text, json) == [text |-> text, json |-> json]

\* JSON.parse(text): the parsed value, or a SyntaxError.
JSONparse(body) == body.json

HtmlBody    == Body("<html>Bad Gateway</html>", JSyntaxError)
EmptyBody   == Body("", JSyntaxError)
NullBody    == Body("null", JNull)
ErrorBody   == Body("{\"error\":\"Show not found\"}", JError("Show not found"))
NoFieldBody == Body("{\"message\":\"boom\"}", JObject)
OkBody      == Body("{}", JObject)

\* --------------------------------------------------------------- response
Response(status, body) == [status |-> status, body |-> body, bodyUsed |-> FALSE]

\* response.ok
Ok(response) == response.status >= 200 /\ response.status <= 299

NoError == "<none>"

\* The promise handleApiResponse returns: fulfilled with data, or rejected
\* with an Error carrying a message and, for a server-reported failure, a
\* status (0 stands for "no status property").
Fulfilled(data) == [threw |-> FALSE, data |-> data, message |-> NoError, status |-> 0]
Rejected(msg, status) == [threw |-> TRUE, data |-> JSyntaxError, message |-> msg, status |-> status]

\* The messages of the Errors thrown at lines 21 and 42.
ConsumedError == "Response body has already been consumed"

InvalidError == "Invalid JSON response from API"

\* The !response.ok branch, mutated: the raw text is always the message.
ApiErrorRaw(response) ==
    Rejected(response.body.text, response.status)

\* handleApiResponse, the !response.ok branch (lines 26-36).
ApiError(response) ==
    LET json == JSONparse(response.body) IN
    IF json.t \in {"syntaxerror", "null"}
    THEN \* JSON.parse threw, or json.error threw a TypeError on null
         Rejected("API request failed: " \o response.body.text, response.status)
    ELSE IF json.error # ""
         THEN Rejected(json.error, response.status)
         ELSE Rejected("API request failed", response.status)

\* handleApiResponse without the bodyUsed check.
handleApiResponseNoCheck(response) ==
    IF ~Ok(response) THEN ApiError(response)
    ELSE IF JSONparse(response.body).t = "syntaxerror"
         THEN Rejected(InvalidError, 0)
         ELSE Fulfilled(JSONparse(response.body))

\* handleApiResponse (lines 18-44): the outcome of the returned promise.
handleApiResponse(response) ==
    IF response.bodyUsed
    THEN Rejected(ConsumedError, 0)
    ELSE IF ~Ok(response) THEN ApiError(response)
    ELSE IF JSONparse(response.body).t = "syntaxerror"
         THEN Rejected(InvalidError, 0)
         ELSE Fulfilled(JSONparse(response.body))

\* The response object after handleApiResponse ran on it: response.text()
\* is called, and marks the body used, unless the bodyUsed check threw.
AfterDecode(response) == [response EXCEPT !.bodyUsed = TRUE]


\* ------------------------------------------------------------------ state
VARIABLES
    shows,            \* useState shows: sequence of [tvMazeId, ignored]
    episodes,         \* useState episodes: sequence of [id, showId, watched]
    error,            \* useState error: a message, or NoError for null
    isAuthenticated,  \* AuthContext.isAuthenticated
    srvShows,         \* backend: tracked show ids, in insertion order
    srvIgnored,       \* backend: ids of the tracked shows flagged ignored
    srvWatched,       \* backend: ids of the episodes flagged watched
    ops,              \* suspended handler invocations, by slot
    last,             \* the step taken last: its name, slot and thrown error
    calls,            \* handler invocations so far, counted up to MaxCalls
    probe,            \* harness of the pure functions: the argument and the outcome
    refreshError      \* useState(null) of refreshError (line 57)

vars == <<shows, episodes, error, isAuthenticated, srvShows, srvIgnored,
          srvWatched, ops, last, calls, probe, refreshError>>

cache == <<shows, episodes>>
server == <<srvShows, srvIgnored, srvWatched>>

Slots == 1..MaxInFlight

\* --------------------------------------------------------------- backend
\* The REST backend is not part of the client; it is modelled from the
\* interface list of the specification (section 6).
SrvShow(id) == [tvMazeId |-> id, ignored |-> id \in srvIgnored]

SrvShowList == [i \in 1..Len(srvShows) |-> SrvShow(srvShows[i])]

SrvEpisode(e) == [tvMazeId |-> e, showId |-> ShowOfEpisode(e), watched |-> e \in srvWatched]

SrvEpisodeList(id) ==
    [i \in 1..Len(CatalogEpisodes(id)) |-> SrvEpisode(CatalogEpisodes(id)[i])]

Tracked(id) == id \in Range(srvShows)

SrvRemove(id) ==
    SelectSeqBy([i \in 1..Len(srvShows) |-> <<srvShows[i], srvShows[i]>>], ShowIds \ {id})

\* ------------------------------------------------------------- invocations
IdleResponse == Response(0, EmptyBody)

Idle == [kind |-> "none", pc |-> "none", arg |-> "", auth |-> FALSE,
         shows |-> <<>>, episodes |-> <<>>, newWatched |-> FALSE,
         net |-> "none", resp |-> IdleResponse,
         showsData |-> <<>>, allEpisodesData |-> <<>>, idx |-> 0,
         fetched |-> <<>>, resultShow |-> NoShow, started |-> 0,
         errors |-> <<>>, overlapped |-> {}]

\* The event loop runs the handlers in the order of the user's actions:
\* an invocation is later than every invocation still suspended.
NextStarted ==
    LET S == {ops[i].started : i \in Slots}
    IN 1 + CHOOSE m \in S : \A n \in S : n <= m

\* A handler invoked now: its closure holds the state of the current render.
Invoke(kind, pc, arg, auth) ==
    [Idle EXCEPT !.kind = kind, !.pc = pc, !.arg = arg,
                 !.auth = auth,
                 !.shows = shows, !.episodes = episodes,
                 !.net = "pending", !.started = NextStarted]

InFlight == {i \in Slots : ops[i].kind # "none"}

AllIdle == InFlight = {}

HasFreeSlot == InFlight # Slots

FreeSlot == CHOOSE i \in Slots : ops[i].kind = "none" /\ \A j \in Slots : ops[j].kind = "none" => i <= j

FetchError == "Failed to fetch"

\* The outcome of `await fetch(...)` followed by `await handleApiResponse`.
Decoded(op) ==
    IF op.net = "failed" THEN Rejected(FetchError, 0)
    ELSE handleApiResponse(op.resp)

\* Whether the delete request failed: fetch rejected, or !response.ok.
DeleteFailed(op) == op.net = "failed" \/ ~Ok(op.resp)

\* A handler invocation is counted, up to MaxCalls.
Counted == calls' = IF calls < MaxCalls THEN calls + 1 ELSE calls

\* The record of a step: its name, the slot and argument of the invocation
\* it belongs to (slot 0: none is suspended), whether the request the
\* invocation waited for failed, the message of the Error the handler threw
\* to its caller, and how often the step read a response body.
Step(name, slot, threw, reads) ==
    [step |-> name, slot |-> slot,
     arg |-> IF slot = 0 THEN "" ELSE ops[slot].arg,
     failed |-> IF slot = 0 THEN FALSE
                ELSE IF ops[slot].net \notin {"ready", "failed"} THEN FALSE
                ELSE IF ops[slot].kind = "deleteShow" THEN DeleteFailed(ops[slot])
                ELSE Decoded(ops[slot]).threw,
     threw |-> threw, reads |-> reads]

\* `await fetch(...)` again inside the same invocation.
Refetch(op, pc) == [op EXCEPT !.pc = pc, !.net = "pending", !.resp = IdleResponse]

TypeOK ==
    /\ isAuthenticated \in BOOLEAN
    /\ \A i \in 1..Len(shows) : shows[i].tvMazeId \in ShowIds
    /\ \A i \in 1..Len(episodes) : episodes[i].id \in EpisodeIds
    /\ Range(srvShows) \subseteq ShowIds
    /\ Len(srvShows) = Cardinality(Range(srvShows))
    /\ srvIgnored \subseteq Range(srvShows)
    /\ \A i \in Slots : ops[i].net \in {"none", "pending", "ready", "failed"}

\* What the backend may hold for the user when the page is opened.
InitialTracked == {<<>>, <<"1", "2">>}

NoProbe == [resp0 |-> IdleResponse, resp |-> IdleResponse,
            out |-> Fulfilled(JNull), n |-> 0, reads |-> 0]

Init ==
    /\ shows = <<>>
    /\ episodes = <<>>
    /\ error = NoError
    /\ isAuthenticated = FALSE
    /\ srvShows \in InitialTracked
    /\ srvIgnored = {}
    /\ srvWatched = {}
    /\ ops = [i \in Slots |-> Idle]
    /\ last = [step |-> "init", slot |-> 0, arg |-> "", failed |-> FALSE,
                threw |-> NoError, reads |-> 0]
    /\ calls = 0
    /\ refreshError = NoError
    /\ probe = NoProbe


\* ------------------------------------------------------- backend replies
DataText == "<json>"

\* What the backend answers to the request `op` is waiting for, and the
\* backend state after it: <<response, srvShows, srvIgnored, srvWatched>>.
NotFound == <<Response(404, ErrorBody), srvShows, srvIgnored, srvWatched>>

ReplyEpisodes(id) ==
    IF Tracked(id)
    THEN <<Response(200, Body(DataText, JEpisodes(SrvEpisodeList(id)))),
           srvShows, srvIgnored, srvWatched>>
    ELSE NotFound

ServerReply(op) ==
    CASE op.pc = "shows" ->
            <<Response(200, Body(DataText, JShows(SrvShowList))),
              srvShows, srvIgnored, srvWatched>>
      [] op.pc = "eps" /\ op.kind = "addShow" -> ReplyEpisodes(op.arg)
      [] op.pc = "eps" /\ op.kind # "addShow" ->
            ReplyEpisodes(op.showsData[op.idx].tvMazeId)
      [] op.pc = "create" ->
            IF Tracked(op.arg)
            THEN <<Response(200, Body(DataText, JAdded(TRUE, SrvShow(op.arg)))),
                   srvShows, srvIgnored, srvWatched>>
            ELSE <<Response(201, Body(DataText,
                        JAdded(FALSE, [tvMazeId |-> op.arg, ignored |-> FALSE]))),
                   Append(srvShows, op.arg), srvIgnored, srvWatched>>
      [] op.pc = "delete" ->
            IF Tracked(op.arg)
            THEN <<Response(200, OkBody), SrvRemove(op.arg),
                   srvIgnored \ {op.arg},
                   {e \in srvWatched : ShowOfEpisode(e) # op.arg}>>
            ELSE NotFound
      [] op.pc = "ignore" ->
            IF Tracked(op.arg)
            THEN <<Response(200, Body(DataText,
                        JIgnored([tvMazeId |-> op.arg, ignored |-> op.arg \notin srvIgnored]))),
                   srvShows,
                   IF op.arg \in srvIgnored THEN srvIgnored \ {op.arg}
                                            ELSE srvIgnored \cup {op.arg},
                   srvWatched>>
            ELSE NotFound
      [] op.pc = "watched" ->
            IF Tracked(ShowOfEpisode(op.arg))
            THEN <<Response(200, OkBody), srvShows, srvIgnored,
                   IF op.newWatched THEN srvWatched \cup {op.arg}
                                    ELSE srvWatched \ {op.arg}>>
            ELSE NotFound
      [] op.pc = "clear" ->
            <<Response(200, OkBody), <<>>, {}, {}>>
      [] op.pc = "refresh" ->
            <<Response(200, Body(DataText, JRefreshed(<<>>))),
              srvShows, srvIgnored, srvWatched>>

\* The backend handles the request and its answer reaches the client.
Serve(i) ==
    /\ ops[i].net = "pending"
    /\ LET reply == ServerReply(ops[i]) IN
        /\ ops' = [ops EXCEPT ![i].net = "ready", ![i].resp = reply[1]]
        /\ srvShows' = reply[2]
        /\ srvIgnored' = reply[3]
        /\ srvWatched' = reply[4]
    /\ last' = Step("serve", i, NoError, 0)
    /\ UNCHANGED <<shows, episodes, error, isAuthenticated, calls, probe, refreshError>>

\* The backend refreshes the catalogue data but fails for some of the tracked
\* shows: the answer is a success whose errors name them.
ServeRefreshPartial(i) ==
    /\ ops[i].net = "pending"
    /\ ops[i].pc = "refresh"
    /\ srvShows # <<>>
    /\ \E errors \in {<<srvShows[1]>>, srvShows} :
          ops' = [ops EXCEPT ![i].net = "ready",
                             ![i].resp = Response(200, Body(DataText, JRefreshed(errors)))]
    /\ last' = Step("serveRefreshPartial", i, NoError, 0)
    /\ UNCHANGED <<shows, episodes, error, isAuthenticated, server, calls, probe,
                   refreshError>>

\* The backend (or a proxy in front of it) refuses the request: a failure
\* status with a structured or an unstructured body, or a success status
\* with a body that is no JSON.  The backend state does not change.
ServeFailure(i) ==
    /\ ops[i].net = "pending"
    /\ \E r \in {Response(500, ErrorBody), Response(502, HtmlBody),
                 Response(200, HtmlBody)} :
          ops' = [ops EXCEPT ![i].net = "ready", ![i].resp = r]
    /\ last' = Step("serveFailure", i, NoError, 0)
    /\ UNCHANGED <<shows, episodes, error, isAuthenticated, server, calls, probe, refreshError>>

\* Transport failure: the request never reaches the backend and fetch
\* rejects.
Drop(i) ==
    /\ ops[i].net = "pending"
    /\ ops' = [ops EXCEPT ![i].net = "failed", ![i].resp = IdleResponse]
    /\ last' = Step("drop", i, NoError, 0)
    /\ UNCHANGED <<shows, episodes, error, isAuthenticated, server, calls, probe, refreshError>>

Resumable(i, kinds, pc) ==
    /\ ops[i].kind \in kinds
    /\ ops[i].pc = pc
    /\ ops[i].net \in {"ready", "failed"}

Finish(i) == ops' = [ops EXCEPT ![i] = Idle]


\* ------------------------------------------------------------- fetchAllShows
\* allEpisodesData.map(ep => ({id: ep.tvMazeId, showId: ep.showId, ...}))
ProcessEpisodes(epData) ==
    [i \in 1..Len(epData) |->
        [id |-> epData[i].tvMazeId, showId |-> epData[i].showId,
         watched |-> epData[i].watched]]

\* Mutant of LoadAllIssues: the guard on isAuthenticated is missing.
LoadAllIssuesAlways(auth) == TRUE

\* fetchAllShows goes to the network iff its closure is authenticated.
LoadAllIssues(auth) == auth

\* fetchAllShows (lines 62-77), up to `await fetch(.../shows)`.
LoadAllCall(auth) ==
    IF LoadAllIssues(auth)
    THEN /\ HasFreeSlot
         /\ error' = NoError
         /\ ops' = [ops EXCEPT ![FreeSlot] = Invoke("loadAll", "shows", "", auth)]
         /\ last' = Step("loadAll.call", FreeSlot, NoError, 0)
         /\ UNCHANGED <<shows, episodes>>
    ELSE /\ shows' = <<>>
         /\ episodes' = <<>>
         /\ last' = Step("loadAll.call", 0, NoError, 0)
         /\ UNCHANGED <<error, ops>>

\* fetchAllShows called from the current render (SearchDrawer.onSelectShow).
CallLoadAll ==
    /\ LoadAllCall(isAuthenticated)
    /\ Counted
    /\ UNCHANGED <<isAuthenticated, server, probe, refreshError>>

\* result.errors.map(e => e.showName).join(', ')
RECURSIVE JoinNames(_)
JoinNames(names) ==
    IF names = <<>> THEN ""
    ELSE IF Len(names) = 1 THEN names[1]
    ELSE names[1] \o ", " \o JoinNames(Tail(names))

\* Line 419: the summary naming the shows that failed to refresh.
RefreshSummary(errors) == "Some shows failed to refresh: " \o JoinNames(errors)

\* Mutant of RefreshOutcome: the errors of the refresh result are not looked at.
RefreshOutcomeSilent(op) == refreshError

\* Lines 416-420: what handleRefreshShows does once `await fetchAllShows()`
\* has returned (fetchAllShows catches its own failures, so it always
\* returns): the refresh error state is the summary when result.errors is
\* not empty.  For a fetchAllShows that was not called by handleRefreshShows
\* the refresh error state stays as it is.
RefreshOutcome(op) ==
    IF op.kind = "refresh" /\ Len(op.errors) > 0
    THEN RefreshSummary(op.errors)
    ELSE refreshError

\* Lines 78-83 and 125-129: the show list arrives.
LoadAllShows(i) ==
    /\ Resumable(i, {"loadAll", "refresh"}, "shows")
    /\ LET op == ops[i]
           r  == Decoded(op)
       IN IF r.threw
          THEN /\ error' = r.message
               /\ refreshError' = RefreshOutcome(op)
               /\ Finish(i)
               /\ UNCHANGED <<shows, episodes>>
          ELSE /\ shows' = r.data.shows
               /\ error' = error
               /\ IF r.data.shows = <<>>
                  THEN /\ episodes' = <<>>
                       /\ refreshError' = RefreshOutcome(op)
                       /\ Finish(i)
                  ELSE /\ episodes' = episodes
                       /\ refreshError' = refreshError
                       /\ ops' = [ops EXCEPT ![i] =
                                    [Refetch(op, "eps") EXCEPT
                                        !.showsData = r.data.shows, !.idx = 1]]
    /\ last' = Step("loadAll.shows", i, NoError,
                    IF ops[i].net = "ready" THEN 1 ELSE 0)
    /\ UNCHANGED <<isAuthenticated, server, calls, probe>>

\* Mutant of EpisodeFailureError: a failed episode request is recorded.
EpisodeFailureRecorded(r) == IF r.threw THEN r.message ELSE error

\* Lines 100-107: a failed episode request is logged, the error state stays.
EpisodeFailureError(r) == error

\* Mutant of PushEpisodes: the fetched episodes are put in front.
PushEpisodesFront(allEpisodesData, epData) == epData \o allEpisodesData

\* Line 95: allEpisodesData.push(...epData)
PushEpisodes(allEpisodesData, epData) == allEpisodesData \o epData

\* Lines 84-123: the episode list of show number idx arrives.
LoadAllEpisodes(i) ==
    /\ Resumable(i, {"loadAll", "refresh"}, "eps")
    /\ LET op  == ops[i]
           r   == Decoded(op)
           acc == IF ~r.threw /\ r.data.t = "array"
                  THEN PushEpisodes(op.allEpisodesData, r.data.eps)
                  ELSE op.allEpisodesData
           \* history: the shows whose episode request succeeded so far
           got == IF ~r.threw
                  THEN Append(op.fetched, op.showsData[op.idx].tvMazeId)
                  ELSE op.fetched
       IN /\ error' = EpisodeFailureError(r)
          /\ IF op.idx < Len(op.showsData)
             THEN /\ ops' = [ops EXCEPT ![i] =
                                [Refetch(op, "eps") EXCEPT
                                    !.allEpisodesData = acc, !.idx = op.idx + 1,
                                    !.fetched = got]]
                  /\ episodes' = episodes
                  /\ refreshError' = refreshError
             ELSE /\ episodes' = ProcessEpisodes(acc)
                  /\ refreshError' = RefreshOutcome(op)
                  /\ Finish(i)
    /\ last' = Step("loadAll.eps", i, NoError,
                    IF ops[i].net = "ready" THEN 1 ELSE 0)
    /\ UNCHANGED <<shows, isAuthenticated, server, calls, probe>>

\* ---------------------------------------------------------- auth effect
\* useEffect (lines 208-217) after the user logged in.
Login ==
    /\ ~isAuthenticated
    /\ HasFreeSlot
    /\ isAuthenticated' = TRUE
    /\ LoadAllCall(TRUE)
    /\ Counted
    /\ UNCHANGED <<server, probe, refreshError>>

\* useEffect (lines 208-217) after the user logged out.
Logout ==
    /\ isAuthenticated
    /\ isAuthenticated' = FALSE
    /\ shows' = <<>>
    /\ episodes' = <<>>
    /\ last' = Step("logout", 0, NoError, 0)
    /\ Counted
    /\ UNCHANGED <<error, server, ops, probe, refreshError>>


\* -------------------------------------------------------------- handleAddShow
\* Upper bound on the length the show collection can reach once every
\* suspended invocation has resumed: a rollback restores a snapshot, a
\* load installs the backend's list, each addShow appends one show.
Max(S) == CHOOSE m \in S : \A n \in S : n <= m

PotentialShowsLen ==
    Max({Len(shows)}
        \cup {Cardinality(ShowIds) :
                 i \in {j \in Slots : ops[j].kind \in {"loadAll", "refresh"}}}
        \cup {Len(ops[i].shows) : i \in Slots})
    + Cardinality({i \in Slots : ops[i].kind = "addShow"})

\* Mutant of IsNewShow: the skipped flag is ignored.
IsNewShowAlways(result) == TRUE

\* Line 242: if (!result.skipped)
IsNewShow(result) == ~result.skipped

\* Lines 257-268: epData.map(ep => ({id: ep.tvMazeId, showId: id, ...}))
ProcessAddedEpisodes(epData, id) ==
    [i \in 1..Len(epData) |->
        [id |-> epData[i].tvMazeId, showId |-> id, watched |-> epData[i].watched]]

\* handleAddShow (lines 219-233), up to `await fetch(.../shows/id)`.
CallAddShow(id) ==
    /\ IF ~isAuthenticated
       THEN /\ last' = Step("addShow.call", 0, NoError, 0)
            /\ UNCHANGED ops
       ELSE /\ HasFreeSlot
            /\ PotentialShowsLen < MaxShowsLen
            /\ ops' = [ops EXCEPT ![FreeSlot] = Invoke("addShow", "create", id, TRUE)]
            /\ last' = Step("addShow.call", FreeSlot, NoError, 0)
    /\ Counted
    /\ UNCHANGED <<shows, episodes, error, isAuthenticated, server, probe, refreshError>>

\* The message of the Error thrown at lines 234-237.
AddShowStatusError(response) ==
    IF response.body.text = "" THEN "Failed to add show" ELSE response.body.text

\* Mutant of AppendShow: the show is not stored before its episodes arrive.
AppendShowDeferred(prevShows, show) == prevShows

\* Line 244: setShows(prev => [...prev, result.show])
AppendShow(prevShows, show) == Append(prevShows, show)

\* Lines 234-251 and 273-276: the answer to the create request arrives.
AddShowCreated(i) ==
    /\ Resumable(i, {"addShow"}, "create")
    /\ LET op == ops[i]
           r  == Decoded(op)
       IN IF op.net = "failed"
          THEN /\ last' = Step("addShow.create", i, FetchError, 0)
               /\ Finish(i)
               /\ UNCHANGED <<shows, episodes>>
          ELSE IF ~Ok(op.resp)
          THEN /\ last' = Step("addShow.create", i, AddShowStatusError(op.resp), 1)
               /\ Finish(i)
               /\ UNCHANGED <<shows, episodes>>
          ELSE IF r.threw
          THEN /\ last' = Step("addShow.create", i, r.message, 1)
               /\ Finish(i)
               /\ UNCHANGED <<shows, episodes>>
          ELSE IF IsNewShow(r.data)
          THEN /\ shows' = AppendShow(shows, r.data.show)
               /\ ops' = [ops EXCEPT ![i] =
                            [Refetch(op, "eps") EXCEPT !.resultShow = r.data.show]]
               /\ last' = Step("addShow.create", i, NoError, 1)
               /\ UNCHANGED episodes
          ELSE /\ last' = Step("addShow.create", i, NoError, 1)
               /\ Finish(i)
               /\ UNCHANGED <<shows, episodes>>
    /\ UNCHANGED <<error, isAuthenticated, server, calls, probe, refreshError>>

\* Mutant of AppendEpisodes: the fetched episodes are not stored.
AppendEpisodesDropped(prevEpisodes, epData, id) == prevEpisodes

\* Lines 256-271: setEpisodes(prev => [...prev, ...processedEpisodes])
AppendEpisodes(prevEpisodes, epData, id) ==
    IF Len(epData) > 0
    THEN prevEpisodes \o ProcessAddedEpisodes(epData, id)
    ELSE prevEpisodes

\* Lines 253-276: the episodes of the new show arrive.
AddShowEpisodes(i) ==
    /\ Resumable(i, {"addShow"}, "eps")
    /\ LET op == ops[i]
           r  == Decoded(op)
       IN IF r.threw
          THEN /\ last' = Step("addShow.eps", i, r.message,
                               IF op.net = "ready" THEN 1 ELSE 0)
               /\ UNCHANGED episodes
          ELSE /\ last' = Step("addShow.eps", i, NoError, 1)
               /\ episodes' = IF r.data.t = "array"
                              THEN AppendEpisodes(episodes, r.data.eps, op.arg)
                              ELSE episodes
    /\ Finish(i)
    /\ UNCHANGED <<shows, error, isAuthenticated, server, calls, probe, refreshError>>

\* ----------------------------------------------------------- handleDeleteShow
\* Mutant of RemoveEpisodes: the episodes of the deleted show stay cached.
RemoveEpisodesKept(prevEpisodes, showId) == prevEpisodes

\* Line 292: prevEpisodes.filter(episode => episode.showId !== showId)
RemoveEpisodes(prevEpisodes, showId) == FilterEpisodes(prevEpisodes, showId)

\* handleDeleteShow (lines 279-300), up to `await fetch(.../shows/id)`.
\* The closure's shows and episodes are originalShows and originalEpisodes.
CallDeleteShow(id) ==
    /\ IF ~isAuthenticated
       THEN /\ last' = Step("deleteShow.call", 0, NoError, 0)
            /\ UNCHANGED <<ops, shows, episodes>>
       ELSE /\ HasFreeSlot
            /\ shows' = FilterShows(shows, id)
            /\ episodes' = RemoveEpisodes(episodes, id)
            /\ ops' = [ops EXCEPT ![FreeSlot] = Invoke("deleteShow", "delete", id, TRUE)]
            /\ last' = Step("deleteShow.call", FreeSlot, NoError, 0)
    /\ Counted
    /\ UNCHANGED <<error, isAuthenticated, server, probe, refreshError>>

\* Mutant of Rollback: a merge, which puts the removed show and its episodes
\* back into the collections as they are now.
RollbackMerged(op) ==
    <<shows \o SelectSeqBy([k \in 1..Len(op.shows) |->
                               <<op.shows[k].tvMazeId, op.shows[k]>>], {op.arg}),
      episodes \o SelectSeqBy([k \in 1..Len(op.episodes) |->
                                  <<op.episodes[k].showId, op.episodes[k]>>], {op.arg})>>

\* Mutant of Rollback: only the show collection is restored.
RollbackShowsOnly(op) == <<op.shows, episodes>>

\* Lines 302-316: setShows(originalShows); setEpisodes(originalEpisodes)
Rollback(op) == <<op.shows, op.episodes>>

\* Lines 302-316: the answer to the delete request arrives.
DeleteShowDone(i) ==
    /\ Resumable(i, {"deleteShow"}, "delete")
    /\ IF DeleteFailed(ops[i])
       THEN /\ shows' = Rollback(ops[i])[1]
            /\ episodes' = Rollback(ops[i])[2]
       ELSE UNCHANGED <<shows, episodes>>
    /\ Finish(i)
    /\ last' = Step("deleteShow.done", i, NoError, 0)
    /\ UNCHANGED <<error, isAuthenticated, server, calls, probe, refreshError>>


\* --------------------------------------------------------- handleToggleIgnore
\* handleToggleIgnore (lines 319-328), up to `await fetch(.../ignore)`.
CallToggleIgnore(id) ==
    /\ IF ~isAuthenticated
       THEN /\ last' = Step("toggleIgnore.call", 0, NoError, 0)
            /\ UNCHANGED ops
       ELSE /\ HasFreeSlot
            /\ ops' = [ops EXCEPT ![FreeSlot] = Invoke("toggleIgnore", "ignore", id, TRUE)]
            /\ last' = Step("toggleIgnore.call", FreeSlot, NoError, 0)
    /\ Counted
    /\ UNCHANGED <<shows, episodes, error, isAuthenticated, server, probe, refreshError>>

\* Lines 330-334: shows.map(show => show.tvMazeId === showId.toString()
\*                                 ? {...show, ignored: updatedShow.ignored} : show)
MapIgnored(ss, showId, ignored) ==
    [k \in 1..Len(ss) |->
        IF ss[k].tvMazeId = showId THEN [ss[k] EXCEPT !.ignored = ignored] ELSE ss[k]]

\* Lines 329-337: the answer to the toggle request arrives.
ToggleIgnoreDone(i) ==
    /\ Resumable(i, {"toggleIgnore"}, "ignore")
    /\ LET op == ops[i]
           r  == Decoded(op)
       IN /\ shows' = IF r.threw THEN shows
                      ELSE MapIgnored(op.shows, op.arg, r.data.show.ignored)
          /\ last' = Step("toggleIgnore.done", i, NoError,
                          IF op.net = "ready" THEN 1 ELSE 0)
    /\ Finish(i)
    /\ UNCHANGED <<episodes, error, isAuthenticated, server, calls, probe, refreshError>>

\* -------------------------------------------------------- handleToggleWatched
\* episodes.find(ep => ep.id === episodeId): the index of the first match,
\* 0 when there is none.
FindEpisode(es, episodeId) ==
    IF \E k \in 1..Len(es) : es[k].id = episodeId
    THEN CHOOSE k \in 1..Len(es) :
            /\ es[k].id = episodeId
            /\ \A j \in 1..(k - 1) : es[j].id # episodeId
    ELSE 0

UndefinedError == "Cannot read properties of undefined (reading 'watched')"

\* handleToggleWatched (lines 340-353), up to `await fetch(.../episodes/id)`.
CallToggleWatched(id) ==
    /\ IF ~isAuthenticated
       THEN /\ last' = Step("toggleWatched.call", 0, NoError, 0)
            /\ UNCHANGED <<ops, error>>
       ELSE IF FindEpisode(episodes, id) = 0
       THEN \* episode is undefined: the TypeError is caught at line 365
            /\ error' = UndefinedError
            /\ last' = Step("toggleWatched.call", 0, NoError, 0)
            /\ UNCHANGED ops
       ELSE /\ HasFreeSlot
            /\ ops' = [ops EXCEPT ![FreeSlot] =
                         [Invoke("toggleWatched", "watched", id, TRUE) EXCEPT
                            !.newWatched = ~episodes[FindEpisode(episodes, id)].watched]]
            /\ last' = Step("toggleWatched.call", FreeSlot, NoError, 0)
            /\ UNCHANGED error
    /\ Counted
    /\ UNCHANGED <<shows, episodes, isAuthenticated, server, probe, refreshError>>

\* Mutant of MapWatched: every episode gets the new flag.
MapWatchedAll(es, episodeId, watched) ==
    [k \in 1..Len(es) |-> [es[k] EXCEPT !.watched = watched]]

\* Lines 358-362: episodes.map(episode => episode.id === episodeId
\*                     ? {...episode, watched: newWatchedStatus} : {...episode})
MapWatched(es, episodeId, watched) ==
    [k \in 1..Len(es) |->
        IF es[k].id = episodeId THEN [es[k] EXCEPT !.watched = watched] ELSE es[k]]

\* Lines 355-368: the answer to the patch request arrives.
ToggleWatchedDone(i) ==
    /\ Resumable(i, {"toggleWatched"}, "watched")
    /\ LET op == ops[i]
           r  == Decoded(op)
       IN /\ IF r.threw
             THEN /\ error' = r.message
                  /\ UNCHANGED episodes
             ELSE /\ episodes' = MapWatched(op.episodes, op.arg, op.newWatched)
                  /\ UNCHANGED error
          /\ last' = Step("toggleWatched.done", i, NoError,
                          IF op.net = "ready" THEN 1 ELSE 0)
          \* history: a toggle still in flight notes the episode toggled meanwhile
          /\ ops' = [j \in Slots |->
                       IF j = i THEN Idle
                       ELSE IF ~r.threw /\ ops[j].kind = "toggleWatched"
                       THEN [ops[j] EXCEPT !.overlapped = @ \cup {op.arg}]
                       ELSE ops[j]]
    /\ UNCHANGED <<shows, isAuthenticated, server, calls, probe, refreshError>>

\* --------------------------------------------------------- handleClearAllData
\* handleClearAllData (lines 377-385), up to `await fetch(.../clear-all)`.
CallClearAll ==
    /\ IF ~isAuthenticated
       THEN /\ last' = Step("clearAll.call", 0, NoError, 0)
            /\ UNCHANGED ops
       ELSE /\ HasFreeSlot
            /\ ops' = [ops EXCEPT ![FreeSlot] = Invoke("clearAll", "clear", "", TRUE)]
            /\ last' = Step("clearAll.call", FreeSlot, NoError, 0)
    /\ Counted
    /\ UNCHANGED <<shows, episodes, error, isAuthenticated, server, probe, refreshError>>

\* Mutant of Cleared: the collection is emptied whatever the answer.
ClearedAlways(r, collection) == <<>>

\* Lines 387-393: setShows([]) and setEpisodes([]) follow the decoding inside
\* the try, so a collection is emptied only when nothing was thrown.
Cleared(r, collection) == IF r.threw THEN collection ELSE <<>>

\* Lines 387-396: the answer to the clear request arrives.
ClearAllDone(i) ==
    /\ Resumable(i, {"clearAll"}, "clear")
    /\ LET r == Decoded(ops[i])
       IN /\ shows' = Cleared(r, shows)
          /\ episodes' = Cleared(r, episodes)
          /\ last' = Step("clearAll.done", i, NoError,
                          IF ops[i].net = "ready" THEN 1 ELSE 0)
    /\ Finish(i)
    /\ UNCHANGED <<error, isAuthenticated, server, calls, probe, refreshError>>

\* --------------------------------------------------------- handleRefreshShows
\* handleRefreshShows (lines 399-410), up to `await fetch(.../refresh/shows)`.
CallRefreshShows ==
    /\ IF ~isAuthenticated
       THEN /\ last' = Step("refreshShows.call", 0, NoError, 0)
            /\ UNCHANGED <<ops, refreshError>>
       ELSE /\ HasFreeSlot
            /\ refreshError' = NoError
            /\ ops' = [ops EXCEPT ![FreeSlot] = Invoke("refresh", "refresh", "", TRUE)]
            /\ last' = Step("refreshShows.call", FreeSlot, NoError, 0)
    /\ Counted
    /\ UNCHANGED <<shows, episodes, error, isAuthenticated, server, probe>>

\* Lines 411-424: the answer to the refresh request arrives.  When it decodes,
\* fetchAllShows of the same render is called (isAuthenticated was true in
\* that render): setError(null), then GET /shows; the decoded result stays in
\* the closure.  Otherwise the catch records the message.
RefreshShowsDone(i) ==
    /\ Resumable(i, {"refresh"}, "refresh")
    /\ LET op == ops[i]
           r  == Decoded(op)
       IN /\ IF r.threw
             THEN /\ refreshError' = r.message
                  /\ Finish(i)
                  /\ UNCHANGED error
             ELSE /\ error' = NoError
                  /\ ops' = [ops EXCEPT ![i] =
                               [Refetch(op, "shows") EXCEPT !.errors = r.data.errors]]
                  /\ UNCHANGED refreshError
          /\ last' = Step("refreshShows.done", i, NoError,
                          IF op.net = "ready" THEN 1 ELSE 0)
    /\ UNCHANGED <<shows, episodes, isAuthenticated, server, calls, probe>>

\* ------------------------------------------------------------ specification
\* The network, the backend, and the resumption of a suspended handler.
Progress ==
    \E i \in Slots :
        \/ Serve(i)
        \/ ServeFailure(i)
        \/ Drop(i)
        \/ LoadAllShows(i)
        \/ LoadAllEpisodes(i)
        \/ AddShowCreated(i)
        \/ AddShowEpisodes(i)
        \/ DeleteShowDone(i)
        \/ ToggleIgnoreDone(i)
        \/ ToggleWatchedDone(i)
        \/ ClearAllDone(i)

Budget == calls < MaxCalls

Next ==
    \/ Budget /\ CallLoadAll
    \/ Budget /\ Login
    \/ Budget /\ Logout
    \/ \E id \in ShowIds : Budget /\ CallAddShow(id)
    \/ \E id \in ShowIds : Budget /\ CallDeleteShow(id)
    \/ \E id \in ShowIds : Budget /\ CallToggleIgnore(id)
    \/ \E id \in EpisodeIds : Budget /\ CallToggleWatched(id)
    \/ Budget /\ CallClearAll
    \/ Progress

\* Handlers interleave at their awaits.
Spec == Init /\ [][Next]_vars

\* One handler at a time: nothing starts while an invocation is suspended.
NextSeq ==
    \/ AllIdle /\ CallLoadAll
    \/ AllIdle /\ Login
    \/ AllIdle /\ Logout
    \/ \E id \in ShowIds : AllIdle /\ CallAddShow(id)
    \/ \E id \in ShowIds : AllIdle /\ CallDeleteShow(id)
    \/ \E id \in ShowIds : AllIdle /\ CallToggleIgnore(id)
    \/ \E id \in EpisodeIds : AllIdle /\ CallToggleWatched(id)
    \/ AllIdle /\ CallClearAll
    \/ Progress

SpecSeq == Init /\ [][NextSeq]_vars


\* No request fails: the backend answers every request it is sent.
ProgressOk ==
    \E i \in Slots :
        \/ Serve(i)
        \/ LoadAllShows(i)
        \/ LoadAllEpisodes(i)
        \/ AddShowCreated(i)
        \/ AddShowEpisodes(i)
        \/ DeleteShowDone(i)
        \/ ToggleIgnoreDone(i)
        \/ ToggleWatchedDone(i)
        \/ ClearAllDone(i)

NextOk ==
    \/ AllIdle /\ CallLoadAll
    \/ AllIdle /\ Login
    \/ AllIdle /\ Logout
    \/ \E id \in ShowIds : AllIdle /\ CallAddShow(id)
    \/ \E id \in ShowIds : AllIdle /\ CallDeleteShow(id)
    \/ \E id \in ShowIds : AllIdle /\ CallToggleIgnore(id)
    \/ \E id \in EpisodeIds : AllIdle /\ CallToggleWatched(id)
    \/ AllIdle /\ CallClearAll
    \/ ProgressOk

\* One handler at a time, over a network and a backend that do not fail.
SpecOk == Init /\ [][NextOk]_vars

\* handleRefreshShows, one handler at a time, next to the handlers that make
\* the cache and the backend differ from run to run: login and logout,
\* addShow, deleteShow and toggleEpisodeWatched.
ProgressRefresh ==
    \E i \in Slots :
        \/ Serve(i)
        \/ ServeRefreshPartial(i)
        \/ ServeFailure(i)
        \/ Drop(i)
        \/ RefreshShowsDone(i)
        \/ LoadAllShows(i)
        \/ LoadAllEpisodes(i)
        \/ AddShowCreated(i)
        \/ AddShowEpisodes(i)
        \/ DeleteShowDone(i)
        \/ ToggleWatchedDone(i)

NextRefresh ==
    \/ AllIdle /\ CallRefreshShows
    \/ AllIdle /\ Login
    \/ AllIdle /\ Logout
    \/ \E id \in ShowIds : AllIdle /\ CallAddShow(id)
    \/ \E id \in ShowIds : AllIdle /\ CallDeleteShow(id)
    \/ \E id \in EpisodeIds : AllIdle /\ CallToggleWatched(id)
    \/ ProgressRefresh

SpecRefresh == Init /\ [][NextRefresh]_vars

\* ------------------------------------------------------------ decode harness
\* handleApiResponse applied, repeatedly, to one response object.
ProbeStatuses == {200, 201, 400, 404, 500}

ProbeBodies ==
    {HtmlBody, EmptyBody, NullBody, ErrorBody, NoFieldBody, OkBody,
     Body(DataText, JShows(<<[tvMazeId |-> "1", ignored |-> FALSE]>>))}

\* bodyUsed may be set already: handleAddShow reads response.text() itself.
ProbeResponses ==
    {[status |-> st, body |-> b, bodyUsed |-> u] :
        st \in ProbeStatuses, b \in ProbeBodies, u \in BOOLEAN}

InitDecode ==
    /\ shows = <<>>
    /\ episodes = <<>>
    /\ error = NoError
    /\ isAuthenticated = FALSE
    /\ srvShows = <<>>
    /\ srvIgnored = {}
    /\ srvWatched = {}
    /\ ops = [i \in Slots |-> Idle]
    /\ last = [step |-> "init", slot |-> 0, arg |-> "", failed |-> FALSE,
                threw |-> NoError, reads |-> 0]
    /\ calls = 0
    /\ refreshError = NoError
    /\ \E r \in ProbeResponses :
          probe = [resp0 |-> r, resp |-> r, out |-> Fulfilled(JNull), n |-> 0, reads |-> 0]

\* await handleApiResponse(response)
DecodeProbe ==
    /\ probe.n < MaxDecodes
    /\ probe' = [probe EXCEPT
                    !.out = handleApiResponse(probe.resp),
                    !.resp = IF probe.resp.bodyUsed THEN probe.resp
                             ELSE AfterDecode(probe.resp),
                    !.reads = IF probe.resp.bodyUsed THEN probe.reads
                              ELSE probe.reads + 1,
                    !.n = probe.n + 1]
    /\ UNCHANGED <<shows, episodes, error, isAuthenticated, server, ops, last, calls,
                   refreshError>>

NextDecode == DecodeProbe

SpecDecode == InitDecode /\ [][NextDecode]_vars


\* ==================================================================== claims
ShowIdsOf(ss) == {ss[k].tvMazeId : k \in 1..Len(ss)}

EpisodeIdsOf(es) == [k \in 1..Len(es) |-> es[k].id]

\* The step just taken resumed the invocation in slot i at the named step.
Resumed(name, i) == last'.step = name /\ last'.slot = i

\* C1: when deleteShow's request fails (fetch rejects, or the status is not
\* a success) and nothing else ran in between, the show collection and the
\* episode collection are, on completion, what they were when deleteShow was
\* called: the handler captures both at the call and restores both.
C1_DeleteFailureRestoresSnapshot ==
    [][\A i \in Slots :
        /\ (last'.step = "deleteShow.call" /\ last'.slot = i)
              => (ops'[i].shows = shows /\ ops'[i].episodes = episodes)
        /\ (Resumed("deleteShow.done", i) /\ last'.failed)
              => /\ shows' = ops[i].shows
                 /\ episodes' = ops[i].episodes
                 /\ ops'[i] = Idle]_vars

\* C1 witness: a failed delete of a cached show that has cached episodes has
\* completed, and the show and its episodes are in the cache again.
C1_Witness ==
    /\ last.step = "deleteShow.done"
    /\ last.failed
    /\ last.arg \in ShowIdsOf(shows)
    /\ \E k \in 1..Len(episodes) : episodes[k].showId = last.arg

\* The episode collection holds exactly the episodes of the cached shows.
EpisodesMatchShows ==
    /\ \A k \in 1..Len(episodes) : episodes[k].showId \in ShowIdsOf(shows)
    /\ \A id \in ShowIdsOf(shows) :
          \A n \in 1..Len(CatalogEpisodes(id)) :
              \E k \in 1..Len(episodes) :
                  /\ episodes[k].id = CatalogEpisodes(id)[n]
                  /\ episodes[k].showId = id
    /\ Range(EpisodeIdsOf(episodes)) =
          UNION {Range(CatalogEpisodes(id)) : id \in ShowIdsOf(shows)}

\* C2: after any sequence of calls that each succeed, started from an empty
\* or freshly loaded cache, the episode collection holds exactly the episodes
\* of the shows in the show collection: no orphan, none missing.
C2_EpisodesMatchShowsAfterSuccesses == AllIdle => EpisodesMatchShows

\* C2 witness: an addShow has completed with its episodes fetched and the
\* cache holds two shows.
C2_Witness ==
    /\ AllIdle
    /\ last.step = "addShow.eps"
    /\ ~last.failed
    /\ Len(shows) = 2
    /\ Len(episodes) = 3

\* C3: a successful toggleEpisodeWatched on a cached episode, with nothing
\* interleaved, leaves exactly one episode with that id, with its watched
\* flag negated; every other episode and the show collection are unchanged.
C3_ToggleWatchedFlipsOneEpisode ==
    [][\A i \in Slots :
        (Resumed("toggleWatched.done", i) /\ ~last'.failed)
           => /\ shows' = shows
              /\ Len(episodes') = Len(episodes)
              /\ Cardinality({k \in 1..Len(episodes') :
                                episodes'[k].id = ops[i].arg}) = 1
              /\ \A k \in 1..Len(episodes) :
                    episodes'[k] =
                        IF episodes[k].id = ops[i].arg
                        THEN [episodes[k] EXCEPT !.watched = ~episodes[k].watched]
                        ELSE episodes[k]]_vars

\* C3 witness: a successful toggle has completed on an episode that is now
\* watched, in a cache that also holds an unwatched episode.
C3_Witness ==
    /\ last.step = "toggleWatched.done"
    /\ ~last.failed
    /\ \E k \in 1..Len(episodes) : episodes[k].id = last.arg /\ episodes[k].watched
    /\ \E k \in 1..Len(episodes) : episodes[k].id # last.arg /\ ~episodes[k].watched

\* The create request of the invocation in slot i was answered "skipped".
AnsweredSkipped(i) ==
    /\ ops[i].net = "ready"
    /\ Ok(ops[i].resp)
    /\ JSONparse(ops[i].resp.body).t = "object"
    /\ JSONparse(ops[i].resp.body).skipped

\* C4: an addShow whose create request is answered with skipped = true
\* changes neither collection and issues no episode request.
C4_SkippedAddChangesNothing ==
    [][\A i \in Slots :
        (Resumed("addShow.create", i) /\ AnsweredSkipped(i))
           => /\ shows' = shows
              /\ episodes' = episodes
              /\ \A j \in Slots : ops'[j].net # "pending"
              /\ ops'[i] = Idle]_vars

\* C4 witness: an addShow of a show that is cached has completed at the
\* answer to its create request, without throwing.
C4_Witness ==
    /\ last.step = "addShow.create"
    /\ ~last.failed
    /\ last.threw = NoError
    /\ ops[last.slot] = Idle
    /\ last.arg \in ShowIdsOf(shows)


\* C5: show identifiers are unique within the show collection in every
\* reachable cache state.
C5_ShowIdsUnique ==
    \A j, k \in 1..Len(shows) : shows[j].tvMazeId = shows[k].tvMazeId => j = k

RECURSIVE EpisodesOfShows(_)
\* The catalogue episodes of a list of shows, in list order.
EpisodesOfShows(ids) ==
    IF ids = <<>> THEN <<>>
    ELSE CatalogEpisodes(Head(ids)) \o EpisodesOfShows(Tail(ids))

\* C6: an authenticated loadAll whose show-list request succeeds completes
\* without recording an error and without throwing, whichever episode
\* requests fail: the show collection is the fetched show list and the
\* episode collection holds exactly the episodes of the shows whose episode
\* request succeeded.
C6_LoadAllToleratesEpisodeFailures ==
    [][\A i \in Slots :
        (Resumed("loadAll.eps", i) /\ ops'[i] = Idle)
           => LET op == ops[i]
                  succeeded ==
                      IF last'.failed THEN op.fetched
                      ELSE Append(op.fetched, op.showsData[op.idx].tvMazeId)
              IN /\ error' = NoError
                 /\ last'.threw = NoError
                 /\ shows' = op.showsData
                 /\ EpisodeIdsOf(episodes') = EpisodesOfShows(succeeded)
                 /\ \A k \in 1..Len(episodes') :
                       episodes'[k].showId = ShowOfEpisode(episodes'[k].id)]_vars

\* C6 witness: a loadAll has completed in which the episode request of the
\* last show failed and that of another show succeeded.
C6_Witness ==
    /\ last.step = "loadAll.eps"
    /\ last.failed
    /\ AllIdle
    /\ Len(shows) = 2
    /\ Len(episodes) > 0
    /\ error = NoError

\* C7: loadAll invoked while unauthenticated empties both collections and
\* returns without issuing a request: no invocation is suspended by it.
C7_UnauthenticatedLoadAllClears ==
    [][(last'.step = "loadAll.call" /\ ~isAuthenticated')
          => /\ shows' = <<>>
             /\ episodes' = <<>>
             /\ ops' = ops
             /\ server' = server]_vars

\* C7 witness: loadAll has been invoked while unauthenticated.
C7_Witness ==
    /\ last.step = "loadAll.call"
    /\ ~isAuthenticated
    /\ calls > 1


\* The probe's response was decoded once, with its body not yet consumed.
FirstDecode == probe.n = 1 /\ ~probe.resp0.bodyUsed

\* C8 as stated: decoding has three outcomes determined by status and body
\* text: data for a success status with a parseable body; for a failure
\* status an error whose message is the body's message field when the body
\* parses and the raw body text otherwise; an 'invalid response' error,
\* unlike every server-reported one, for a success status with an
\* unparseable body.
C8_DecodeThreeOutcomes ==
    FirstDecode =>
        LET r    == probe.resp0
            json == JSONparse(r.body)
            out  == probe.out
        IN /\ (Ok(r) /\ json.t # "syntaxerror") => (~out.threw /\ out.data = json)
           /\ ~Ok(r) =>
                 /\ out.threw
                 /\ out.message = IF json.t # "syntaxerror" THEN json.error
                                  ELSE r.body.text
           /\ (Ok(r) /\ json.t = "syntaxerror") =>
                 (out.threw /\ out.message = InvalidError /\ out.status = 0)

\* C8 as amended: for a failure status the error carries the response's
\* status and its message is the body's error field when the body parses to
\* a value with a non-empty error field, "API request failed" when it parses
\* to a value other than null without one, and "API request failed: "
\* followed by the raw text when it does not parse or parses to null.  The
\* 'invalid response' error carries no status, every server-reported error
\* does.
C8_DecodeThreeOutcomesAmended ==
    FirstDecode =>
        LET r    == probe.resp0
            json == JSONparse(r.body)
            out  == probe.out
        IN /\ (Ok(r) /\ json.t # "syntaxerror") => (~out.threw /\ out.data = json)
           /\ ~Ok(r) =>
                 /\ out.threw
                 /\ out.status = r.status
                 /\ out.status # 0
                 /\ out.message =
                       IF json.t \in {"syntaxerror", "null"}
                       THEN "API request failed: " \o r.body.text
                       ELSE IF json.error # "" THEN json.error
                       ELSE "API request failed"
           /\ (Ok(r) /\ json.t = "syntaxerror") =>
                 (out.threw /\ out.message = InvalidError /\ out.status = 0)

\* C8 witness: a response with a failure status and a body that is no JSON
\* has been decoded.
C8_Witness ==
    /\ FirstDecode
    /\ ~Ok(probe.resp0)
    /\ JSONparse(probe.resp0.body).t = "syntaxerror"
    /\ probe.out.threw

\* C9: a response body is read at most once over any sequence of decode
\* attempts, and decoding a response whose body was consumed before fails
\* with an error and never returns data, whatever the status.
C9_ConsumedBodyFailsLoudly ==
    /\ probe.reads + (IF probe.resp0.bodyUsed THEN 1 ELSE 0) <= 1
    /\ (probe.n >= 2 \/ (probe.n = 1 /\ probe.resp0.bodyUsed))
          => (probe.out.threw /\ probe.out.message = ConsumedError)

\* C9 witness: a success response with a parseable body has been decoded
\* twice.
C9_Witness ==
    /\ probe.n = 2
    /\ ~probe.resp0.bodyUsed
    /\ Ok(probe.resp0)
    /\ JSONparse(probe.resp0.body).t = "array"
    /\ probe.out.threw

\* C10: when addShow's create request is answered with a failure status and
\* a structured body with a message field, the error thrown to the caller
\* carries that field, and the body is read exactly once.
C10_AddShowFailureCarriesMessageField ==
    [][\A i \in Slots :
        (/\ Resumed("addShow.create", i)
         /\ ops[i].net = "ready"
         /\ ~Ok(ops[i].resp)
         /\ JSONparse(ops[i].resp.body).t = "object"
         /\ JSONparse(ops[i].resp.body).error # "")
           => /\ last'.threw = JSONparse(ops[i].resp.body).error
              /\ last'.reads = 1]_vars


\* ----------------------------------------------------------------- isReleased
\* An air date as the episode object holds it: the property is absent
\* (undefined), null, or a string; a string is a calendar date (t is its
\* time value) or no date at all ("" or a text such as "TBA").
AirUndefined == [k |-> "undefined", t |-> 0]
AirNull      == [k |-> "null", t |-> 0]
AirEmpty     == [k |-> "empty", t |-> 0]
AirText      == [k |-> "text", t |-> 0]
AirDate(t)   == [k |-> "date", t |-> t]

\* new Date(value): the time value, or NaN (an Invalid Date).  undefined, ""
\* and a text that is no date give NaN; null converts to the number 0, the
\* epoch.
NewDate(airdate) ==
    CASE airdate.k = "date" -> [nan |-> FALSE, t |-> airdate.t]
      [] airdate.k = "null" -> [nan |-> FALSE, t |-> 0]
      [] OTHER -> [nan |-> TRUE, t |-> 0]

\* isReleased (lines 371-375): epDate < today; a comparison with NaN is false.
isReleased(episode, today) ==
    LET epDate == NewDate(episode.airdate)
    IN ~epDate.nan /\ epDate.t < today

AirDates ==
    {AirUndefined, AirNull, AirEmpty, AirText} \cup {AirDate(t) : t \in 0..MaxTime}

InitReleased ==
    /\ shows = <<>>
    /\ episodes = <<>>
    /\ error = NoError
    /\ isAuthenticated = FALSE
    /\ srvShows = <<>>
    /\ srvIgnored = {}
    /\ srvWatched = {}
    /\ ops = [i \in Slots |-> Idle]
    /\ last = [step |-> "init", slot |-> 0, arg |-> "", failed |-> FALSE,
                threw |-> NoError, reads |-> 0]
    /\ calls = 0
    /\ refreshError = NoError
    /\ \E a \in AirDates, now \in 1..MaxTime :
          probe = [episode |-> [airdate |-> a], today |-> now, out |-> FALSE, n |-> 0]

\* isReleased(episode), called at the moment probe.today.
CallIsReleased ==
    /\ probe.n = 0
    /\ probe' = [probe EXCEPT !.out = isReleased(probe.episode, probe.today),
                              !.n = 1]
    /\ UNCHANGED <<shows, episodes, error, isAuthenticated, server, ops, last, calls,
                   refreshError>>

NextReleased == CallIsReleased

SpecReleased == InitReleased /\ [][NextReleased]_vars

\* C11: isReleased(episode) is true iff the episode has an air date and that
\* date is strictly earlier than the current moment; it is false for every
\* representation of "no air date" (undefined, null, empty string).
C11_ReleasedIffAiredBeforeNow ==
    probe.n = 1 =>
        (probe.out <=> (/\ probe.episode.airdate.k = "date"
                        /\ probe.episode.airdate.t < probe.today))


\* C12: deleteShow(showId) is optimistic.  The step that issues the delete
\* request has already removed the show and every episode of the show from
\* the cache, the request being still unanswered; every other show and
\* episode is kept, in order; and when the request succeeds the resumption
\* leaves the cache as it is.
C12_DeleteIsOptimistic ==
    [][\A i \in Slots :
        /\ (last'.step = "deleteShow.call" /\ last'.slot = i)
              => /\ ops'[i].kind = "deleteShow"
                 /\ ops'[i].net = "pending"
                 /\ ops'[i].arg \notin ShowIdsOf(shows')
                 /\ \A k \in 1..Len(episodes') : episodes'[k].showId # ops'[i].arg
                 /\ shows' = FilterShows(shows, ops'[i].arg)
                 /\ episodes' = FilterEpisodes(episodes, ops'[i].arg)
        /\ (Resumed("deleteShow.done", i) /\ ~last'.failed)
              => (shows' = shows /\ episodes' = episodes)]_vars

\* A delete request is in flight; its show, cached with episodes at the call,
\* is gone from the cache with its episodes, and another show with an
\* episode is still cached.
C12_Witness ==
    \E i \in Slots :
        /\ ops[i].kind = "deleteShow"
        /\ ops[i].net = "pending"
        /\ ops[i].arg \in ShowIdsOf(ops[i].shows)
        /\ \E k \in 1..Len(ops[i].episodes) : ops[i].episodes[k].showId = ops[i].arg
        /\ ops[i].arg \notin ShowIdsOf(shows)
        /\ Len(shows) = 1
        /\ Len(episodes) > 0
        /\ \A k \in 1..Len(episodes) : episodes[k].showId # ops[i].arg

\* C13: when deleteShow's request fails or is answered with a non-success
\* status, the failure is surfaced besides the rollback: on completion an
\* error is recorded for the user or the failure is thrown to the caller.
C13_DeleteFailureSurfaced ==
    [][\A i \in Slots :
        (Resumed("deleteShow.done", i) /\ last'.failed)
            => (error' # NoError \/ last'.threw # NoError)]_vars


\* The steps at which the answer to the primary request of a non-optimistic
\* operation is handled: GET /shows of loadAll, POST /shows/id of addShow, and
\* the single request of toggleShowIgnored, toggleEpisodeWatched and clearAll.
PrimarySteps ==
    {"loadAll.shows", "addShow.create", "toggleIgnore.done",
     "toggleWatched.done", "clearAll.done"}

\* C14: for loadAll, addShow, toggleShowIgnored, toggleEpisodeWatched and
\* clearAll, with one operation at a time: when the primary request fails
\* (the fetch rejects or the answer is not a success) the operation completes
\* at that step, and both collections then equal what they were when the
\* operation was called.
C14_PrimaryFailureLeavesCache ==
    [][\A i \in Slots :
        (last'.step \in PrimarySteps /\ last'.slot = i /\ last'.failed)
            => /\ shows' = ops[i].shows
               /\ episodes' = ops[i].episodes
               /\ shows' = shows
               /\ episodes' = episodes
               /\ ops'[i] = Idle]_vars

\* The request of clearAll has failed with both collections filled.
C14_Witness ==
    /\ last.step = "clearAll.done"
    /\ last.failed
    /\ AllIdle
    /\ Len(shows) = 2
    /\ Len(episodes) > 0


\* C15: no failure is swallowed.  Whenever the request an operation waits for
\* has failed, the step that handles the failure leaves a message for the
\* user (the error state), throws to the caller, or rolls the cache back to
\* the snapshot (deleteShow); the only failures exempt are those of the
\* per-show episode requests inside loadAll.
C15_NoFailureSwallowed ==
    [][\A i \in Slots :
        (last'.slot = i /\ last'.failed /\ last'.step # "loadAll.eps")
            => \/ error' # NoError
               \/ last'.threw # NoError
               \/ /\ last'.step = "deleteShow.done"
                  /\ shows' = ops[i].shows
                  /\ episodes' = ops[i].episodes]_vars


\* C16: toggleShowIgnored(showId) is pessimistic and local.  Nothing is
\* written to the cache before the answer is handled; when the answer is a
\* success exactly the show with that identifier takes the ignored value the
\* server returned, every other show and every other field stays as it is,
\* and the episode collection is not touched.  The success case is stated
\* for a show that was cached when the operation was called, which is what a
\* toggle offered by the user interface acts on.
C16_ToggleIgnoreLocal ==
    [][\A i \in Slots :
        /\ (last'.step = "toggleIgnore.call" /\ last'.slot = i)
              => (shows' = shows /\ episodes' = episodes)
        /\ (/\ Resumed("toggleIgnore.done", i)
            /\ ~last'.failed
            /\ ops[i].arg \in ShowIdsOf(ops[i].shows))
              => /\ episodes' = episodes
                 /\ Len(shows') = Len(shows)
                 /\ \A k \in 1..Len(shows) :
                       /\ shows'[k].tvMazeId = shows[k].tvMazeId
                       /\ shows'[k].ignored =
                             IF shows[k].tvMazeId = ops[i].arg
                             THEN ops[i].resp.body.json.show.ignored
                             ELSE shows[k].ignored]_vars


\* C17: with one operation at a time, when addShow's create request has
\* succeeded with a newly created show and the episode request that follows
\* fails, the new show is in the show collection, the episode collection
\* holds no episode of it, and the shows and episodes cached at the call are
\* unchanged; and the episode request is issued only by the step that has
\* handled a successful answer to the create request.
C17_AddShowEpisodeFailureKeepsShow ==
    [][\A i \in Slots :
        /\ (Resumed("addShow.eps", i) /\ last'.failed)
              => /\ \E k \in 1..Len(shows') : shows'[k] = ops[i].resultShow
                 /\ ops[i].resultShow.tvMazeId = ops[i].arg
                 /\ \A k \in 1..Len(episodes') : episodes'[k].showId # ops[i].arg
                 /\ shows' = Append(ops[i].shows, ops[i].resultShow)
                 /\ episodes' = ops[i].episodes
                 /\ ops'[i] = Idle
        /\ (ops'[i].kind = "addShow" /\ ops'[i].pc = "eps" /\ ops[i].pc # "eps")
              => /\ Resumed("addShow.create", i)
                 /\ ops[i].net = "ready"
                 /\ Ok(ops[i].resp)
                 /\ ~last'.failed
                 /\ ~ops[i].resp.body.json.skipped]_vars

\* The episode request of addShow has failed; the new show is cached next to
\* a show cached before, whose episodes are still there.
C17_Witness ==
    /\ last.step = "addShow.eps"
    /\ last.failed
    /\ AllIdle
    /\ Len(shows) = 2
    /\ shows[2].tvMazeId = last.arg
    /\ Len(episodes) > 0
    /\ \A k \in 1..Len(episodes) : episodes[k].showId # last.arg


\* C18: a successful loadAll replaces both collections atomically.  While a
\* loadAll is suspended between two of its steps there is no state in which
\* the show collection already holds the newly fetched shows (different from
\* the shows cached at the call) and the episode collection still holds the
\* episodes cached at the call.
C18_LoadAllReplacesAtomically ==
    \A i \in Slots :
        (/\ ops[i].kind = "loadAll"
         /\ ops[i].pc = "eps"
         /\ ops[i].showsData # ops[i].shows)
            => ~(shows = ops[i].showsData /\ episodes = ops[i].episodes)


\* C19: referential integrity holds in every reachable state of the cache,
\* whatever the interleaving of the operations: every episode of the episode
\* collection has the showId of a show of the show collection.
C19_ReferentialIntegrity ==
    \A k \in 1..Len(episodes) : episodes[k].showId \in ShowIdsOf(shows)


\* C20: mutating operations are serialized.  No step of an operation (its
\* call or one of its resumptions) changes the cache while an operation that
\* was started earlier is still waiting for the answer to its request.
C20_MutationsSerialized ==
    [][\A i, j \in Slots :
        (/\ i # j
         /\ last'.slot = i
         /\ (shows' # shows \/ episodes' # episodes)
         /\ ops[j].kind # "none"
         /\ ops[j].net = "pending")
            => ops[j].started >=
                  (IF ops[i].kind = "none" THEN ops'[i].started ELSE ops[i].started)]_vars


\* C21: whatever other operations did to the cache between deleteShow's
\* optimistic removal and its failure, the rollback replaces both collections
\* with the arrays captured when deleteShow was called: a change made in
\* between is not in the cache after the rollback.
C21_RollbackDiscardsInterveningChanges ==
    [][\A i \in Slots :
        (Resumed("deleteShow.done", i) /\ last'.failed)
            => /\ shows' = ops[i].shows
               /\ episodes' = ops[i].episodes]_vars

\* A delete has just been rolled back with nothing left in flight, and an
\* episode the backend holds as watched (a toggle that succeeded while the
\* delete was in flight) is unwatched in the cache again.
C21_Witness ==
    /\ last.step = "deleteShow.done"
    /\ last.failed
    /\ AllIdle
    /\ last.arg \in ShowIdsOf(shows)
    /\ \E k \in 1..Len(episodes) :
          /\ episodes[k].id \in srvWatched
          /\ ~episodes[k].watched
          /\ episodes[k].showId # last.arg


\* The position of the show with identifier id in the show list ss, 0 when
\* the list has no such show.
PositionOfShow(ss, id) ==
    IF \E k \in 1..Len(ss) : ss[k].tvMazeId = id
    THEN CHOOSE k \in 1..Len(ss) :
            /\ ss[k].tvMazeId = id
            /\ \A j \in 1..(k - 1) : ss[j].tvMazeId # id
    ELSE 0

\* C22: within one loadAll the episode requests are issued one after the
\* other in the order of the fetched show list.  The first is issued by the
\* step that decoded the show list; the request for the next show is issued
\* only by the step that handles the answer (or the failure) of the request
\* for the show before it, so the loadAll has one request in flight at most;
\* and the episode collection it writes at the end lists the episodes
\* grouped in show-list order.
C22_EpisodeRequestsSequential ==
    [][\A i \in Slots :
        /\ (Resumed("loadAll.shows", i) /\ ops'[i].kind = "loadAll")
              => /\ ops'[i].pc = "eps"
                 /\ ops'[i].idx = 1
                 /\ ops'[i].net = "pending"
        /\ (Resumed("loadAll.eps", i) /\ ops[i].idx < Len(ops[i].showsData))
              => /\ ops'[i].pc = "eps"
                 /\ ops'[i].idx = ops[i].idx + 1
                 /\ ops'[i].showsData = ops[i].showsData
                 /\ ops'[i].net = "pending"
                 /\ episodes' = episodes
        /\ (Resumed("loadAll.eps", i) /\ ops[i].idx >= Len(ops[i].showsData))
              => /\ ops'[i] = Idle
                 /\ \A a, b \in 1..Len(episodes') :
                       a < b => /\ PositionOfShow(ops[i].showsData, episodes'[a].showId) > 0
                                /\ PositionOfShow(ops[i].showsData, episodes'[a].showId)
                                     <= PositionOfShow(ops[i].showsData, episodes'[b].showId)
        /\ (ops[i].kind = "loadAll" /\ ops'[i].kind = "loadAll"
              /\ ops'[i].idx # ops[i].idx)
              => /\ last'.slot = i
                 /\ last'.step \in {"loadAll.shows", "loadAll.eps"}
                 /\ ops[i].net \in {"ready", "failed"}]_vars

\* A loadAll has completed for the show list [2, 1]: the episode collection
\* holds the episode of show 2 first and the two episodes of show 1 after it.
C22_Witness ==
    /\ last.step = "loadAll.eps"
    /\ AllIdle
    /\ Len(shows) = 2
    /\ shows[1].tvMazeId = "2"
    /\ Len(episodes) = 3
    /\ episodes[1].showId = "2"
    /\ episodes[3].showId = "1"


\* The loadAll that refreshShows in slot i runs takes a step; it completes
\* when the step leaves the slot idle.
RefreshLoadAllStep(i) ==
    /\ last'.slot = i
    /\ last'.step \in {"loadAll.shows", "loadAll.eps"}
    /\ ops[i].kind = "refresh"

\* What C23 says about the steps of refreshShows other than the one that
\* handles the answer to the refresh request: the call issues the refresh
\* request and writes nothing to the cache; while the loadAll runs the
\* refresh error state is not written; the step that completes the loadAll
\* is the one that looks at the errors of the refresh result, recording the
\* summary that names the failed shows when there are any, and the cache it
\* leaves is what the loadAll produced (the fetched show list with the
\* episodes of the shows whose episode request succeeded; the cache as it was
\* when the show list could not be fetched), errors or not.
RefreshAroundLoadAll(i) ==
    /\ (last'.step = "refreshShows.call" /\ last'.slot = i)
          => /\ ops'[i].kind = "refresh"
             /\ ops'[i].pc = "refresh"
             /\ ops'[i].net = "pending"
             /\ shows' = shows
             /\ episodes' = episodes
    /\ (RefreshLoadAllStep(i) /\ ops'[i] # Idle)
          => /\ refreshError' = refreshError
             /\ ops'[i].errors = ops[i].errors
    /\ (RefreshLoadAllStep(i) /\ ops'[i] = Idle)
          => /\ refreshError' = IF ops[i].errors # <<>>
                                THEN RefreshSummary(ops[i].errors)
                                ELSE refreshError
             /\ (last'.step = "loadAll.shows" /\ last'.failed)
                   => (shows' = shows /\ episodes' = episodes)
             /\ (last'.step = "loadAll.shows" /\ ~last'.failed)
                   => (shows' = <<>> /\ episodes' = <<>>)
             /\ last'.step = "loadAll.eps"
                   => /\ shows' = ops[i].showsData
                      /\ EpisodeIdsOf(episodes') =
                            EpisodesOfShows(
                               IF last'.failed THEN ops[i].fetched
                               ELSE Append(ops[i].fetched,
                                           ops[i].showsData[ops[i].idx].tvMazeId))

\* C23: refreshShows issues the refresh request; once that request has
\* completed, however it completed, it runs loadAll (GET /shows is issued) to
\* completion, and only then looks at the errors of the refresh result and
\* records the summary naming the failed shows; the errors cause no rollback,
\* the cache after refreshShows is what that loadAll produced.
C23_RefreshThenLoadAll ==
    [][\A i \in Slots :
        /\ RefreshAroundLoadAll(i)
        /\ Resumed("refreshShows.done", i)
              => /\ ops'[i].kind = "refresh"
                 /\ ops'[i].pc = "shows"
                 /\ ops'[i].net = "pending"
                 /\ refreshError' = refreshError]_vars

\* C23 as the code has it: loadAll is run when the refresh request has
\* succeeded (a success status and a body that decodes), whatever errors the
\* result lists; when the refresh request fails, no loadAll is run, the
\* failure's message becomes the refresh error and the cache is not written.
C23_RefreshThenLoadAllOnSuccess ==
    [][\A i \in Slots :
        /\ RefreshAroundLoadAll(i)
        /\ (Resumed("refreshShows.done", i) /\ ~last'.failed)
              => /\ ops'[i].kind = "refresh"
                 /\ ops'[i].pc = "shows"
                 /\ ops'[i].net = "pending"
                 /\ ops'[i].errors = ops[i].resp.body.json.errors
                 /\ refreshError' = refreshError
                 /\ shows' = shows
                 /\ episodes' = episodes
        /\ (Resumed("refreshShows.done", i) /\ last'.failed)
              => /\ ops'[i] = Idle
                 /\ refreshError' # NoError
                 /\ shows' = shows
                 /\ episodes' = episodes]_vars

\* A refreshShows whose result named both shows as failed has completed:
\* its loadAll has filled the cache with the two shows and their episodes,
\* and the summary is the refresh error.
C23_Witness ==
    /\ last.step = "loadAll.eps"
    /\ AllIdle
    /\ refreshError = "Some shows failed to refresh: 2, 1"
    /\ Len(shows) = 2
    /\ Len(episodes) = 3
    /\ error = NoError


\* C24: when two toggleEpisodeWatched calls on two distinct episodes overlap
\* and both requests succeed, the cache reflects both toggles once both have
\* completed.  At the successful completion of a toggle, the episode it
\* toggled has the new flag, and so has every other episode that a toggle
\* completed successfully while this one was in flight: its flag is the
\* negation of the one it had when this toggle was called.
C24_OverlappingTogglesBothApplied ==
    [][\A i \in Slots :
        (/\ Resumed("toggleWatched.done", i)
         /\ ~last'.failed
         /\ ops[i].overlapped \ {ops[i].arg} # {})
            => \A k \in 1..Len(ops[i].episodes) :
                  (ops[i].episodes[k].id \in ops[i].overlapped \cup {ops[i].arg})
                     => \E m \in 1..Len(episodes') :
                           /\ episodes'[m].id = ops[i].episodes[k].id
                           /\ episodes'[m].watched = ~ops[i].episodes[k].watched]_vars


\* C25: while the user is unauthenticated both collections are empty: the
\* logout empties them, and no operation that was started while
\* authenticated and is still waiting for an answer writes shows or
\* episodes into the cache afterwards.
C25_UnauthenticatedCacheStaysEmpty ==
    ~isAuthenticated => (shows = <<>> /\ episodes = <<>>)

====
